---- MODULE Spec2Model ----
(***************************************************************************)
(* In-memory todo service (src/src/main.rs): request handlers running     *)
(* concurrently over one Vec<Todo> behind a std::sync::Mutex.             *)
(***************************************************************************)
EXTENDS Integers, Sequences, FiniteSets, TLC

VARIABLES
    store,      \* the Vec<Todo> inside the Mutex
    lock,       \* 0 when the Mutex is free, else the handler holding its guard
    poisoned,   \* the Mutex poison flag (a holder panicked)
    pc,         \* pc[h]: position of handler h in its request
    todo,       \* todo[h]: the local `todo` of the handler, <<>> before it is bound
    recv,       \* request received by the latest step, NoRequest when it received none
    last,       \* outcome handed to the connection by the latest step, if it ended a request
    nreq,       \* number of requests received so far
    batch       \* observer's record of a batch of POSTs: Store before it, records sent

vars == <<store, lock, poisoned, pc, todo, recv, last, nreq, batch>>

----------------------------------------------------------------------------
(* Bounds *)

NumHandlers == 2
MaxRequests == 3
MaxBase == 2

(* Program constants: #[validate(length(min = 1, max = 100))] *)
MinTitleLen == 1
MaxTitleLen == 100

Handlers == 1..NumHandlers

----------------------------------------------------------------------------
(* Titles are character sequences; a character is a small number. *)

Rep(c, n) == [i \in 1..n |-> c]

TitleEmpty == <<>>
TitleA     == <<1>>
TitleB     == <<2>>
TitleMax   == Rep(1, MaxTitleLen)
TitleLong  == Rep(1, MaxTitleLen + 1)

InvalidTitles == {TitleEmpty, TitleLong}

Todo(t, c) == [title |-> t, completed |-> c]

(* Request bodies: a JSON object of the Todo shape, bytes serde_json rejects, *)
(* or a body whose collection fails with a hyper::Error.                     *)
JsonBody(t, c) == [kind |-> "json", title |-> t, completed |-> c]
Malformed      == [kind |-> "malformed"]
BrokenBody     == [kind |-> "ioerror"]
NoBody         == [kind |-> "none"]

Bodies ==
    {JsonBody(TitleA, c) : c \in BOOLEAN}
    \cup {JsonBody(t, FALSE) : t \in {TitleMax} \cup InvalidTitles}
    \cup {Malformed, BrokenBody}

Request(m, p, b) == [method |-> m, path |-> p, body |-> b]

NoRequest == Request("", "", NoBody)

Requests ==
    {Request(m, "/todos", b) : m \in {"POST", "PUT", "DELETE"}, b \in Bodies}
    \cup {Request("GET", "/todos", NoBody),
          Request("PATCH", "/todos", NoBody),
          Request("GET", "/Todos", NoBody)}

----------------------------------------------------------------------------
(* Pure functions *)

(* todo.validate(): length(min = 1, max = 100) on title *)
ValidateNoMin(t) == Len(t.title) <= MaxTitleLen

ValidateOffByOne(t) == Len(t.title) >= MinTitleLen /\ Len(t.title) <= MaxTitleLen + 1

Validate(t) == Len(t.title) >= MinTitleLen /\ Len(t.title) <= MaxTitleLen

(* serde_json::from_slice::<Todo>: Ok(Todo) for a body of the Todo shape *)
Decodes(b) == b.kind = "json"

Decode(b) == Todo(b.title, b.completed)

(* match (req.method(), req.uri().path()) in todo_handler *)
RouteIgnoreCase(m, p) ==
    IF p \in {"/todos", "/Todos"} /\ m = "POST" THEN "create"
    ELSE IF p \in {"/todos", "/Todos"} /\ m = "GET" THEN "list"
    ELSE IF p \in {"/todos", "/Todos"} /\ m = "PUT" THEN "update"
    ELSE IF p \in {"/todos", "/Todos"} /\ m = "DELETE" THEN "delete"
    ELSE "notfound"

Route(m, p) ==
    IF p = "/todos" /\ m = "POST" THEN "create"
    ELSE IF p = "/todos" /\ m = "GET" THEN "list"
    ELSE IF p = "/todos" /\ m = "PUT" THEN "update"
    ELSE IF p = "/todos" /\ m = "DELETE" THEN "delete"
    ELSE "notfound"

(* Vec::push *)
PushFront(s, t) == <<t>> \o s

PushUnique(s, t) ==
    IF \E i \in 1..Len(s) : s[i].title = t.title THEN s ELSE Append(s, t)

Push(s, t) == Append(s, t)

(* iter().position(|t| t.title == title): index of the first match, 0 for None *)
PositionLast(s, title) ==
    LET m == {i \in 1..Len(s) : s[i].title = title}
    IN  IF m = {} THEN 0 ELSE CHOOSE i \in m : \A j \in m : j <= i

Position(s, title) ==
    LET m == {i \in 1..Len(s) : s[i].title = title}
    IN  IF m = {} THEN 0 ELSE CHOOSE i \in m : \A j \in m : i <= j

(* Vec::remove(index) *)
RemoveAllMatching(s, i) == SelectSeq(s, LAMBDA x : x.title # s[i].title)

RemoveHead(s, i) == Tail(s)

Remove(s, i) == [j \in 1..(Len(s) - 1) |-> IF j < i THEN s[j] ELSE s[j + 1]]

(* *existing_todo = todo *)
ReplaceLast(s, i, t) == [s EXCEPT ![Len(s)] = t]

Replace(s, i, t) == [s EXCEPT ![i] = t]

(* Responses *)
JsonRecord(t)   == [kind |-> "json", record |-> t]
JsonArray(s)    == [kind |-> "json", array |-> s]
TextBody(m)     == [kind |-> "text", message |-> m]
EmptyBody       == [kind |-> "empty"]

Outcome(op, t, st, b) ==
    [op |-> op, todo |-> t, end |-> "response", status |-> st, body |-> b]

Panicked(op, t) ==
    [op |-> op, todo |-> t, end |-> "panic", status |-> 0, body |-> EmptyBody]

Failed(op, t) ==
    [op |-> op, todo |-> t, end |-> "error", status |-> 0, body |-> EmptyBody]

NoOutcome ==
    [op |-> "none", todo |-> <<>>, end |-> "none", status |-> 0, body |-> EmptyBody]

----------------------------------------------------------------------------
(* Initial state: main() builds Arc::new(Mutex::new(Vec::new())) and no *)
(* request has arrived.                                                   *)

Init ==
    /\ store = <<>>
    /\ lock = 0
    /\ poisoned = FALSE
    /\ pc = [h \in Handlers |-> "idle"]
    /\ todo = [h \in Handlers |-> <<>>]
    /\ recv = NoRequest
    /\ last = NoOutcome
    /\ nreq = 0
    /\ batch = [base |-> <<>>, posted |-> {}]

(* The handler's future completes: its locals are dropped and the outcome *)
(* is handed to the connection.                                            *)
Finish(h, outcome) ==
    /\ pc' = [pc EXCEPT ![h] = "idle"]
    /\ todo' = [todo EXCEPT ![h] = <<>>]
    /\ last' = outcome

Goto(h, label) == pc' = [pc EXCEPT ![h] = label]

(* parse_json: Err when collecting the body fails, a panic when            *)
(* serde_json::from_slice(..).unwrap() meets bytes that are no Todo.        *)
ParseJson(b) ==
    IF b.kind = "ioerror" THEN "error"
    ELSE IF ~Decodes(b) THEN "panic"
    ELSE "ok"

ValidationError(h, op, t) ==
    Finish(h, Outcome(op, <<t>>, 400, TextBody("Validation error")))

Bind(h, t, label) ==
    /\ todo' = [todo EXCEPT ![h] = <<t>>]
    /\ Goto(h, label)
    /\ last' = NoOutcome

(* create_todo, lines 42-48: the body is decoded and validated; nothing   *)
(* shared is touched before the first lock().                              *)
CreateDecode(h, b) ==
    CASE ParseJson(b) = "error" -> Finish(h, Failed("create", <<>>))
      [] ParseJson(b) = "panic" -> Finish(h, Panicked("create", <<>>))
      [] ParseJson(b) = "ok" ->
            IF ~Validate(Decode(b))
            THEN ValidationError(h, "create", Decode(b))
            ELSE Bind(h, Decode(b), "create_lock")

UpdateDecodeUnchecked(h, b) ==
    CASE ParseJson(b) = "error" -> Finish(h, Failed("update", <<>>))
      [] ParseJson(b) = "panic" -> Finish(h, Panicked("update", <<>>))
      [] ParseJson(b) = "ok" -> Bind(h, Decode(b), "update_lock")

(* update_todo, lines 61-67 *)
UpdateDecode(h, b) ==
    CASE ParseJson(b) = "error" -> Finish(h, Failed("update", <<>>))
      [] ParseJson(b) = "panic" -> Finish(h, Panicked("update", <<>>))
      [] ParseJson(b) = "ok" ->
            IF ~Validate(Decode(b))
            THEN ValidationError(h, "update", Decode(b))
            ELSE Bind(h, Decode(b), "update_lock")

DeleteDecodeValidated(h, b) ==
    CASE ParseJson(b) = "error" -> Finish(h, Failed("delete", <<>>))
      [] ParseJson(b) = "panic" -> Finish(h, Panicked("delete", <<>>))
      [] ParseJson(b) = "ok" ->
            IF ~Validate(Decode(b))
            THEN ValidationError(h, "delete", Decode(b))
            ELSE Bind(h, Decode(b), "delete_lock")

(* delete_todo, line 84: decoded, not validated *)
DeleteDecode(h, b) ==
    CASE ParseJson(b) = "error" -> Finish(h, Failed("delete", <<>>))
      [] ParseJson(b) = "panic" -> Finish(h, Panicked("delete", <<>>))
      [] ParseJson(b) = "ok" -> Bind(h, Decode(b), "delete_lock")

(* todo_handler: a request arrives on a connection task, is dispatched and *)
(* runs up to its first lock() or to its end.                               *)
TodoHandler(h, r) ==
    /\ pc[h] = "idle"
    /\ nreq < MaxRequests
    /\ nreq' = nreq + 1
    /\ recv' = r
    /\ CASE Route(r.method, r.path) = "create" -> CreateDecode(h, r.body)
         [] Route(r.method, r.path) = "list" ->
                Goto(h, "list_lock") /\ UNCHANGED todo /\ last' = NoOutcome
         [] Route(r.method, r.path) = "update" -> UpdateDecode(h, r.body)
         [] Route(r.method, r.path) = "delete" -> DeleteDecode(h, r.body)
         [] Route(r.method, r.path) = "notfound" ->
                Finish(h, Outcome("notfound", <<>>, 404, TextBody("Not Found")))
    /\ UNCHANGED <<store, lock, poisoned>>

OpOf(label) ==
    IF label \in {"create_lock", "create_push", "create_relock", "create_last"}
    THEN "create"
    ELSE IF label \in {"update_lock", "update_find"} THEN "update"
    ELSE IF label \in {"delete_lock", "delete_find"} THEN "delete"
    ELSE IF label \in {"list_lock", "list_read"} THEN "list"
    ELSE "none"

Held(label) ==
    CASE label = "create_lock"   -> "create_push"
      [] label = "create_relock" -> "create_last"
      [] label = "list_lock"     -> "list_read"
      [] label = "update_lock"   -> "update_find"
      [] label = "delete_lock"   -> "delete_find"

(* todos.lock().unwrap(): blocks while another guard lives; panics when the *)
(* mutex is poisoned (the guard inside the PoisonError is dropped).          *)
MutexLock(h) ==
    /\ pc[h] \in {"create_lock", "create_relock", "list_lock", "update_lock", "delete_lock"}
    /\ lock = 0
    /\ IF poisoned
       THEN Finish(h, Panicked(OpOf(pc[h]), todo[h])) /\ UNCHANGED lock
       ELSE lock' = h /\ Goto(h, Held(pc[h])) /\ UNCHANGED todo /\ last' = NoOutcome
    /\ recv' = NoRequest
    /\ UNCHANGED <<store, poisoned, nreq>>

CreatePushKeepGuard(h) ==
    /\ pc[h] = "create_push"
    /\ lock = h
    /\ store' = Push(store, todo[h][1])
    /\ Goto(h, "create_relock")
    /\ last' = NoOutcome
    /\ recv' = NoRequest
    /\ UNCHANGED <<lock, poisoned, todo, nreq>>

(* create_todo line 49: push under the guard; the guard is a temporary and *)
(* is dropped at the end of the statement.                                  *)
CreatePush(h) ==
    /\ pc[h] = "create_push"
    /\ lock = h
    /\ store' = Push(store, todo[h][1])
    /\ lock' = 0
    /\ Goto(h, "create_relock")
    /\ last' = NoOutcome
    /\ recv' = NoRequest
    /\ UNCHANGED <<poisoned, todo, nreq>>

(* create_todo line 50: last().unwrap() under a second guard *)
CreateLast(h) ==
    /\ pc[h] = "create_last"
    /\ lock = h
    /\ lock' = 0
    /\ IF store = <<>>
       THEN poisoned' = TRUE /\ Finish(h, Panicked("create", todo[h]))
       ELSE /\ Finish(h, Outcome("create", todo[h], 200, JsonRecord(store[Len(store)])))
            /\ UNCHANGED poisoned
    /\ recv' = NoRequest
    /\ UNCHANGED <<store, nreq>>

(* list_todos *)
ListTodos(h) ==
    /\ pc[h] = "list_read"
    /\ lock = h
    /\ lock' = 0
    /\ Finish(h, Outcome("list", <<>>, 200, JsonArray(store)))
    /\ recv' = NoRequest
    /\ UNCHANGED <<store, poisoned, nreq>>

NotFound(h, op) ==
    Finish(h, Outcome(op, todo[h], 404, TextBody("Todo not found")))

UpsertTodo(h) ==
    /\ pc[h] = "update_find"
    /\ lock = h
    /\ lock' = 0
    /\ LET i == Position(store, todo[h][1].title) IN
        IF i > 0
        THEN /\ store' = Replace(store, i, todo[h][1])
             /\ Finish(h, Outcome("update", todo[h], 200, JsonRecord(store'[i])))
        ELSE /\ store' = Push(store, todo[h][1])
             /\ Finish(h, Outcome("update", todo[h], 200, JsonRecord(todo[h][1])))
    /\ recv' = NoRequest
    /\ UNCHANGED <<poisoned, nreq>>

(* update_todo, lines 68-77 *)
UpdateTodo(h) ==
    /\ pc[h] = "update_find"
    /\ lock = h
    /\ lock' = 0
    /\ LET i == Position(store, todo[h][1].title) IN
        IF i > 0
        THEN /\ store' = Replace(store, i, todo[h][1])
             /\ Finish(h, Outcome("update", todo[h], 200, JsonRecord(store'[i])))
        ELSE /\ NotFound(h, "update")
             /\ UNCHANGED store
    /\ recv' = NoRequest
    /\ UNCHANGED <<poisoned, nreq>>

DeleteTodoIdempotent(h) ==
    /\ pc[h] = "delete_find"
    /\ lock = h
    /\ lock' = 0
    /\ LET i == Position(store, todo[h][1].title) IN
        IF i > 0
        THEN /\ store' = Remove(store, i)
             /\ Finish(h, Outcome("delete", todo[h], 200, EmptyBody))
        ELSE /\ Finish(h, Outcome("delete", todo[h], 200, EmptyBody))
             /\ UNCHANGED store
    /\ recv' = NoRequest
    /\ UNCHANGED <<poisoned, nreq>>

(* delete_todo, lines 85-94 *)
DeleteTodo(h) ==
    /\ pc[h] = "delete_find"
    /\ lock = h
    /\ lock' = 0
    /\ LET i == Position(store, todo[h][1].title) IN
        IF i > 0
        THEN /\ store' = Remove(store, i)
             /\ Finish(h, Outcome("delete", todo[h], 200, EmptyBody))
        ELSE /\ NotFound(h, "delete")
             /\ UNCHANGED store
    /\ recv' = NoRequest
    /\ UNCHANGED <<poisoned, nreq>>

Next ==
    \/ \E h \in Handlers, r \in Requests : TodoHandler(h, r) /\ UNCHANGED batch
    \/ \E h \in Handlers : MutexLock(h) /\ UNCHANGED batch
    \/ \E h \in Handlers : CreatePush(h) /\ UNCHANGED batch
    \/ \E h \in Handlers : CreateLast(h) /\ UNCHANGED batch
    \/ \E h \in Handlers : ListTodos(h) /\ UNCHANGED batch
    \/ \E h \in Handlers : UpdateTodo(h) /\ UNCHANGED batch
    \/ \E h \in Handlers : DeleteTodo(h) /\ UNCHANGED batch

Spec == Init /\ [][Next]_vars

(* The runtime keeps running every spawned connection task: a handler that *)
(* can take its next step (acquire the free mutex, or finish the section   *)
(* it holds the guard for) eventually takes it.                             *)
HandlerStep(h) ==
    /\ \/ MutexLock(h)
       \/ CreatePush(h)
       \/ CreateLast(h)
       \/ ListTodos(h)
       \/ UpdateTodo(h)
       \/ DeleteTodo(h)
    /\ UNCHANGED batch

(* One request of each kind that takes the lock, and one that panics before *)
(* it: the requests that decide whether handlers can block each other.       *)
LockRequests ==
    {Request("POST", "/todos", JsonBody(TitleA, FALSE)),
     Request("PUT", "/todos", JsonBody(TitleA, TRUE)),
     Request("DELETE", "/todos", JsonBody(TitleA, FALSE)),
     Request("GET", "/todos", NoBody),
     Request("POST", "/todos", Malformed)}

NextLock ==
    \/ \E h \in Handlers, r \in LockRequests : TodoHandler(h, r) /\ UNCHANGED batch
    \/ \E h \in Handlers : HandlerStep(h)

FairSpec == Init /\ [][NextLock]_vars /\ \A h \in Handlers : WF_vars(HandlerStep(h))

----------------------------------------------------------------------------
(* A batch of POST /todos requests with valid records of pairwise distinct *)
(* titles, sent to a Store that already holds some records.                 *)

BatchTitles == {TitleA, TitleB, TitleMax}

BaseStores ==
    {<<>>,
     <<Todo(TitleA, TRUE)>>,
     <<Todo(TitleB, FALSE), Todo(TitleA, TRUE)>>}

InitCreates ==
    /\ store \in BaseStores
    /\ lock = 0
    /\ poisoned = FALSE
    /\ pc = [h \in Handlers |-> "idle"]
    /\ todo = [h \in Handlers |-> <<>>]
    /\ recv = NoRequest
    /\ last = NoOutcome
    /\ nreq = 0
    /\ batch = [base |-> store, posted |-> {}]

PostDistinct(h, t, c) ==
    /\ \A p \in batch.posted : p.title # t
    /\ TodoHandler(h, Request("POST", "/todos", JsonBody(t, c)))
    /\ batch' = [batch EXCEPT !.posted = @ \cup {Todo(t, c)}]

NextCreates ==
    \/ \E h \in Handlers, t \in BatchTitles, c \in BOOLEAN : PostDistinct(h, t, c)
    \/ \E h \in Handlers : MutexLock(h) /\ UNCHANGED batch
    \/ \E h \in Handlers : CreatePush(h) /\ UNCHANGED batch
    \/ \E h \in Handlers : CreateLast(h) /\ UNCHANGED batch

SpecCreates == InitCreates /\ [][NextCreates]_vars

----------------------------------------------------------------------------
(* One POST /todos of a valid record whose title the Store does not hold,  *)
(* run to its end, then one DELETE /todos of the same record, with no other *)
(* request in between.                                                      *)

RoundRecords == {Todo(TitleA, TRUE), Todo(TitleB, FALSE), Todo(TitleMax, FALSE)}

SeqsUpTo(S, n) == UNION {[1..k -> S] : k \in 0..n}

InitRound ==
    /\ store \in SeqsUpTo(RoundRecords, MaxBase)
    /\ lock = 0
    /\ poisoned = FALSE
    /\ pc = [h \in Handlers |-> "idle"]
    /\ todo = [h \in Handlers |-> <<>>]
    /\ recv = NoRequest
    /\ last = NoOutcome
    /\ nreq = 0
    /\ batch = [base |-> store, posted |-> {}]

RoundPost(h, t, c) ==
    /\ \A g \in Handlers : pc[g] = "idle"
    /\ batch.posted = {}
    /\ \A i \in 1..Len(store) : store[i].title # t
    /\ TodoHandler(h, Request("POST", "/todos", JsonBody(t, c)))
    /\ batch' = [batch EXCEPT !.posted = {Todo(t, c)}]

RoundDelete(h) ==
    /\ \A g \in Handlers : pc[g] = "idle"
    /\ nreq = 1
    /\ \E r \in batch.posted :
          TodoHandler(h, Request("DELETE", "/todos", JsonBody(r.title, r.completed)))
    /\ UNCHANGED batch

NextRound ==
    \/ \E h \in Handlers, t \in BatchTitles, c \in BOOLEAN : RoundPost(h, t, c)
    \/ \E h \in Handlers : RoundDelete(h)
    \/ \E h \in Handlers : MutexLock(h) /\ UNCHANGED batch
    \/ \E h \in Handlers : CreatePush(h) /\ UNCHANGED batch
    \/ \E h \in Handlers : CreateLast(h) /\ UNCHANGED batch
    \/ \E h \in Handlers : DeleteTodo(h) /\ UNCHANGED batch

SpecRound == InitRound /\ [][NextRound]_vars

----------------------------------------------------------------------------
(* Properties *)

Titles(s) == [i \in 1..Len(s) |-> s[i].title]

Holds(s, title) == \E i \in 1..Len(s) : s[i].title = title

FirstMatch(s, title) ==
    CHOOSE i \in 1..Len(s) :
        s[i].title = title /\ \A j \in 1..(i - 1) : s[j].title # title

Count(s, x) == Cardinality({i \in 1..Len(s) : s[i] = x})

Quiescent == \A h \in Handlers : pc[h] = "idle"

(* A handler is inside its Store operation from its first lock() to the end *)
(* of the function that performs the operation.                              *)
InStoreOp(h) ==
    pc[h] \in {"create_push", "create_relock", "create_last",
               "list_read", "update_find", "delete_find"}

(* C1: at most one Store operation (create, list, update, delete) executes *)
(* at a time: no two handlers are inside a Store operation together, so a   *)
(* list never runs in the middle of a create, update or delete.             *)
C1_OneStoreOperationAtATime ==
    Cardinality({h \in Handlers : InStoreOp(h)}) <= 1

(* C2: in a batch of concurrent POSTs of valid records with pairwise        *)
(* distinct titles every request is answered 200, and once all of them have *)
(* finished the Store holds the records it held before plus exactly the     *)
(* records posted, each once.                                               *)
C2_ConcurrentCreatesAllStored ==
    /\ last.op = "create" => last.end = "response" /\ last.status = 200
    /\ Quiescent =>
        /\ Len(store) = Len(batch.base) + Cardinality(batch.posted)
        /\ \A x \in batch.posted \cup {store[i] : i \in 1..Len(store)} :
              Count(store, x) = Count(batch.base, x) + (IF x \in batch.posted THEN 1 ELSE 0)

C2_Witness ==
    /\ Quiescent
    /\ Cardinality(batch.posted) >= 2
    /\ batch.base # <<>>
    /\ last.op = "create"
    /\ last.status = 200
    /\ last.body # JsonRecord(last.todo[1])

(* C3: a POST answered 200 carries in its body the record that this very   *)
(* request submitted and stored.                                            *)
C3_CreateReturnsOwnRecord ==
    (last.op = "create" /\ last.status = 200) => last.body = JsonRecord(last.todo[1])

(* C4: create(r) appends r as the last element: the Store grows by one, the *)
(* earlier records keep content and order (also when r's title is already   *)
(* held), and a list() that follows returns exactly that sequence.          *)
C4_CreateAppendsLast ==
    [][\A h \in Handlers :
        /\ (pc[h] = "create_push" /\ pc'[h] # "create_push") =>
              /\ Validate(todo[h][1])
              /\ Len(store') = Len(store) + 1
              /\ store'[Len(store')] = todo[h][1]
              /\ \A i \in 1..Len(store) : store'[i] = store[i]
        /\ (pc[h] = "list_read" /\ pc'[h] # "list_read") =>
              last'.body = JsonArray(store)]_vars

C4_Witness ==
    \E h \in Handlers :
        /\ pc[h] = "create_relock"
        /\ Len(store) >= 2
        /\ store[Len(store)] = todo[h][1]
        /\ \E i \in 1..(Len(store) - 1) : store[i].title = todo[h][1].title

(* C5: update(r) with a valid r whose title is held replaces the first     *)
(* record of that title, at the same position, answers 200 with r, and      *)
(* leaves the length, the titles and every other record as they were.       *)
C5_UpdateReplacesFirstMatch ==
    [][\A h \in Handlers :
        (pc[h] = "update_find" /\ pc'[h] # "update_find"
            /\ Holds(store, todo[h][1].title)) =>
            LET r == todo[h][1]
                i == FirstMatch(store, r.title)
            IN  /\ Validate(r)
                /\ last' = Outcome("update", <<r>>, 200, JsonRecord(r))
                /\ Len(store') = Len(store)
                /\ Titles(store') = Titles(store)
                /\ store'[i] = r
                /\ \A j \in 1..Len(store) : j # i => store'[j] = store[j]]_vars

C5_Witness ==
    /\ last.op = "update"
    /\ last.status = 200
    /\ \E i, j \in 1..Len(store) :
        /\ i < j
        /\ store[i] = last.todo[1]
        /\ store[j].title = store[i].title
        /\ store[j] # store[i]

(* C6: delete(r) when r's title is held removes exactly the first record of *)
(* that title and answers 200 with an empty body; the other records keep    *)
(* content and order; r's completed flag plays no part.                     *)
C6_DeleteRemovesFirstMatch ==
    [][\A h \in Handlers :
        (pc[h] = "delete_find" /\ pc'[h] # "delete_find"
            /\ Holds(store, todo[h][1].title)) =>
            LET r == todo[h][1]
                i == FirstMatch(store, r.title)
            IN  /\ last' = Outcome("delete", <<r>>, 200, EmptyBody)
                /\ Len(store') = Len(store) - 1
                /\ \A j \in 1..(i - 1) : store'[j] = store[j]
                /\ \A j \in i..Len(store') : store'[j] = store[j + 1]]_vars

C6_Witness ==
    /\ last.op = "delete"
    /\ last.status = 200
    /\ \E i \in 1..Len(store) :
        /\ store[i].title = last.todo[1].title
        /\ store[i].completed # last.todo[1].completed

InvalidTitle(b) == b.kind = "json" /\ (Len(b.title) = 0 \/ Len(b.title) > 100)

(* C7: a POST /todos whose record has an empty title or one longer than 100 *)
(* characters is answered 400 and leaves the Store as it was.               *)
C7_InvalidCreateRejected ==
    [][(recv'.method = "POST" /\ recv'.path = "/todos" /\ InvalidTitle(recv'.body)) =>
        /\ last'.end = "response"
        /\ last'.status = 400
        /\ pc' = pc
        /\ store' = store]_vars

C7_Witness ==
    /\ recv.method = "POST"
    /\ last.op = "create"
    /\ last.status = 400
    /\ Len(last.todo[1].title) > 100
    /\ store # <<>>

(* C8: update(r) with a valid r whose title is not held answers 404 and    *)
(* leaves the Store unchanged.                                              *)
C8_UpdateMissingIs404 ==
    [][\A h \in Handlers :
        (pc[h] = "update_find" /\ pc'[h] # "update_find"
            /\ ~Holds(store, todo[h][1].title)) =>
            /\ Validate(todo[h][1])
            /\ last'.end = "response"
            /\ last'.status = 404
            /\ store' = store]_vars

C8_Witness ==
    /\ last.op = "update"
    /\ last.status = 404
    /\ store # <<>>

(* C9: delete(r) when r's title is not held answers 404 and leaves the     *)
(* Store unchanged.                                                         *)
C9_DeleteMissingIs404 ==
    [][\A h \in Handlers :
        (pc[h] = "delete_find" /\ pc'[h] # "delete_find"
            /\ ~Holds(store, todo[h][1].title)) =>
            /\ last'.end = "response"
            /\ last'.status = 404
            /\ store' = store]_vars

C9_Witness ==
    /\ last.op = "delete"
    /\ last.status = 404
    /\ store # <<>>

(* C10: POST and PUT decode, then validate, then touch the Store: a request *)
(* whose body does not decode or whose record is invalid ends in the step   *)
(* that receives it, with the lock and the Store untouched, so no handler   *)
(* of a create or an update ever waits for or holds the lock with an        *)
(* invalid record; an invalid PUT is answered 400, never 404.               *)
C10_ValidateBeforeStore ==
    [][/\ \A h \in Handlers :
            (OpOf(pc'[h]) \in {"create", "update"}) => Validate(todo'[h][1])
       /\ (recv'.method \in {"POST", "PUT"} /\ recv'.path = "/todos"
            /\ (recv'.body.kind = "malformed" \/ InvalidTitle(recv'.body))) =>
            /\ pc' = pc
            /\ lock' = lock
            /\ store' = store
            /\ last'.end = (IF InvalidTitle(recv'.body) THEN "response" ELSE "panic")
            /\ InvalidTitle(recv'.body) => last'.status = 400]_vars

C10_Witness ==
    /\ recv.method = "PUT"
    /\ last.op = "update"
    /\ last.status = 400
    /\ store # <<>>
    /\ lock # 0

(* C11: DELETE /todos does not validate its payload: a DELETE whose title *)
(* is empty or longer than 100 characters is never answered 400; it goes on *)
(* to the Store lookup, which answers 404 when no record has that title and *)
(* 200 when one does.                                                        *)
C11_DeleteNotValidated ==
    [][/\ (recv'.method = "DELETE" /\ recv'.path = "/todos" /\ InvalidTitle(recv'.body)) =>
            /\ last' = NoOutcome
            /\ \E h \in Handlers :
                /\ pc[h] = "idle"
                /\ pc'[h] = "delete_lock"
                /\ todo'[h] = <<Todo(recv'.body.title, recv'.body.completed)>>
       /\ (last'.op = "delete" /\ last'.end = "response") => last'.status \in {200, 404}
       /\ \A h \in Handlers :
            (pc[h] = "delete_find" /\ pc'[h] # "delete_find") =>
                /\ last'.end = "response"
                /\ last'.status = (IF Holds(store, todo[h][1].title) THEN 200 ELSE 404)]_vars

C11_Witness ==
    /\ last.op = "delete"
    /\ last.status = 404
    /\ Len(last.todo[1].title) > 100
    /\ store # <<>>

(* C12: every record held in the Store has a title of 1 to 100 characters.  *)
C12_StoredTitlesValid ==
    \A i \in 1..Len(store) : Len(store[i].title) >= 1 /\ Len(store[i].title) <= 100

C12_Witness ==
    /\ Len(store) >= 2
    /\ \E i, j \in 1..Len(store) : Len(store[i].title) = 1 /\ Len(store[j].title) = 100
    /\ last.op = "update"
    /\ last.status = 200

UniqueTitles(s) == \A i, j \in 1..Len(s) : s[i].title = s[j].title => i = j

(* C13 as stated: no two records in the Store share a title.                *)
C13_TitlesUnique == UniqueTitles(store)

(* C13 as amended: titles need not be unique, since a POST of a title that  *)
(* is already held appends a second record of that title; that push is the  *)
(* only step that makes a Store of unique titles lose uniqueness.           *)
C13_OnlyCreateAddsDuplicate ==
    [][(UniqueTitles(store) /\ ~UniqueTitles(store')) =>
        \E h \in Handlers :
            /\ pc[h] = "create_push"
            /\ pc'[h] = "create_relock"
            /\ Holds(store, todo[h][1].title)]_vars

C13_Witness ==
    /\ UniqueTitles(store)
    /\ Len(store) >= 2
    /\ last.op = "update"
    /\ last.status = 200
    /\ store[1] = last.todo[1]

(* C14: a POST, PUT or DELETE whose body cannot be decoded as a record is  *)
(* answered with a 400 response and never ends without a response.          *)
C14_MalformedIs400 ==
    (recv.method \in {"POST", "PUT", "DELETE"} /\ recv.path = "/todos"
        /\ recv.body.kind = "malformed") =>
        (last.end = "response" /\ last.status = 400)

Routed(r) == r.path = "/todos" /\ r.method \in {"POST", "GET", "PUT", "DELETE"}

(* C15: a request whose method and path are not exactly POST, GET, PUT or  *)
(* DELETE on /todos is answered 404 "Not Found"; the Store is unchanged and *)
(* the lock is not acquired.                                                *)
C15_UnroutedIs404 ==
    [][(recv' # NoRequest /\ ~Routed(recv')) =>
        /\ last'.end = "response"
        /\ last'.status = 404
        /\ last'.body = TextBody("Not Found")
        /\ store' = store
        /\ lock' = lock
        /\ pc' = pc]_vars

C15_Witness ==
    /\ recv.path = "/Todos"
    /\ last.status = 404
    /\ store # <<>>
    /\ lock # 0

(* C16: GET /todos always answers 200 with the complete sequence of records *)
(* currently in the Store, in insertion order.                              *)
C16_ListAlways200 ==
    last.op = "list" =>
        (last.end = "response" /\ last.status = 200 /\ last.body = JsonArray(store))

(* C17: under fair scheduling every request that has started ends (with a  *)
(* response, an error or a panic), so no handler waits for the lock for     *)
(* ever, and the lock is released after every acquisition.                  *)
C17_EveryRequestEnds ==
    /\ \A h \in Handlers : (pc[h] # "idle") ~> (pc[h] = "idle")
    /\ (lock # 0) ~> (lock = 0)

C17_Witness ==
    \E h, g \in Handlers :
        /\ h # g
        /\ pc[h] = "create_relock"
        /\ lock = g
        /\ pc[g] \in {"create_push", "create_last"}

(* C18: a POST /todos carrying a well-formed, valid record never ends in a *)
(* panic: the Store is non-empty when create reads back its last element.   *)
C18_ValidCreateNeverPanics ==
    \A h \in Handlers : pc[h] = "create_last" => store # <<>>

(* C19: no handler panics while it holds the lock, so the Mutex is never   *)
(* poisoned and every later request can still acquire it.                   *)
C19_NeverPoisoned == ~poisoned

(* C20: create(r) of a valid r whose title the Store s does not hold,      *)
(* followed by delete(r) with no other operation in between, gives back     *)
(* exactly s, and both requests are answered 200.                           *)
C20_CreateDeleteRoundTrip ==
    /\ last.op \in {"create", "delete"} => (last.end = "response" /\ last.status = 200)
    /\ (last.op = "create" /\ last.end = "response") =>
            (batch.posted = {last.todo[1]} /\ store = Append(batch.base, last.todo[1]))
    /\ (nreq = 2 /\ \A h \in Handlers : pc[h] = "idle") => store = batch.base

C20_Witness ==
    /\ nreq = 2
    /\ \A h \in Handlers : pc[h] = "idle"
    /\ last.op = "delete"
    /\ last.status = 200
    /\ Len(batch.base) >= 2
    /\ store = batch.base

====
